---------------------------- MODULE Spec2Model ----------------------------
(***************************************************************************)
(* Model of pivpy/compute_funcs.py: the moving-window reductions           *)
(* Γ1_moving_window_function and Γ2_moving_window_function.                *)
(*                                                                         *)
(* Numbers.  The arrays of the code hold IEEE-754 binary64 values.  The    *)
(* model keeps the IEEE special values (NaN, +inf, -inf), the rules for    *)
(* x/0, 0/0, inf-inf, and the limited exponent range (a product below the  *)
(* smallest positive number is 0, a sum absorbs a term that is far below   *)
(* the other), and it computes significands exactly: a finite number is    *)
(*     (sum over square-free d of  c[d] * sqrt(d))  *  Eps^k               *)
(* with rational c[d] and Eps standing for 1e-200 (Eps*Eps underflows to   *)
(* 0).  The last-bit rounding of binary64 is not modelled.                 *)
(*                                                                         *)
(* Specifications.  Spec: one call of Gamma1 or Gamma2 on a well-formed    *)
(* window.  SpecAny: one call on any input, well-formed or not.            *)
(* SpecDriver: the windowing driver running the reductions of a shared     *)
(* field on several workers, statement by statement.                       *)
(***************************************************************************)
EXTENDS Integers, Sequences, FiniteSets, TLC

(***************************************************************************)
(* Exact rationals <<p, q>>, q > 0, in lowest terms.                       *)
(***************************************************************************)
Abs(i) == IF i < 0 THEN -i ELSE i

RECURSIVE GCD(_, _)
GCD(a, b) == IF b = 0 THEN a ELSE GCD(b, a % b)

RNorm(p, q) ==
    LET g == GCD(Abs(p), Abs(q))
        s == IF q < 0 THEN -1 ELSE 1
    IN  << (s * p) \div g, (s * q) \div g >>

RInt(i) == << i, 1 >>
RAdd(a, b) == RNorm(a[1] * b[2] + b[1] * a[2], a[2] * b[2])
RMul(a, b) == RNorm(a[1] * b[1], a[2] * b[2])
RNeg(a) == << -a[1], a[2] >>
RInv(a) == RNorm(a[2], a[1])

(***************************************************************************)
(* n = SquarePart(n)^2 * SquareFree(n) for n >= 1.                         *)
(***************************************************************************)
RECURSIVE SqPartFrom(_, _)
SqPartFrom(n, k) ==
    IF k * k > n THEN 1
    ELSE IF n % (k * k) = 0 THEN k * SqPartFrom(n \div (k * k), k)
    ELSE SqPartFrom(n, k + 1)

SquarePart(n) == SqPartFrom(n, 2)
SquareFree(n) == n \div (SquarePart(n) * SquarePart(n))

(***************************************************************************)
(* Significands: finite maps d |-> c[d] (d square-free, c[d] # 0), the     *)
(* real number sum of c[d]*sqrt(d).  The representation is unique, so two  *)
(* significands are the same real number iff they are equal.               *)
(***************************************************************************)
CZero == << >>
CRat(r) == IF r[1] = 0 THEN CZero ELSE (1 :> r)

CCoef(c, d) == IF d \in DOMAIN c THEN c[d] ELSE RInt(0)

CAdd(a, b) ==
    LET D == { d \in (DOMAIN a) \cup (DOMAIN b) :
                  RAdd(CCoef(a, d), CCoef(b, d))[1] # 0 }
    IN  [ d \in D |-> RAdd(CCoef(a, d), CCoef(b, d)) ]

CNeg(a) == [ d \in DOMAIN a |-> RNeg(a[d]) ]
CScale(a, r) == [ d \in DOMAIN a |-> RMul(a[d], r) ]

\* A significand with one term, as <<d, c[d]>>.  The code multiplies and
\* divides by one-term significands only, and takes roots of rationals only;
\* any other use stops the evaluation.
Mono(c) ==
    IF Cardinality(DOMAIN c) = 1
    THEN LET d == CHOOSE e \in DOMAIN c : TRUE IN << d, c[d] >>
    ELSE CHOOSE m \in {} : TRUE

IsRat(c) == DOMAIN c = {1}

\* sqrt(d1) * sqrt(d2) = g * sqrt((d1/g) * (d2/g)) with g = gcd(d1, d2)
CMul(a, b) ==
    IF IsRat(b) THEN CScale(a, b[1])
    ELSE IF IsRat(a) THEN CScale(b, a[1])
    ELSE LET ma == Mono(a)
             mb == Mono(b)
             g  == GCD(ma[1], mb[1])
         IN  ((ma[1] \div g) * (mb[1] \div g)) :> RMul(RMul(ma[2], mb[2]), RInt(g))

\* 1 / (q * sqrt(d)) = sqrt(d) / (q * d)
CInv(a) ==
    LET ma == Mono(a)
    IN  ma[1] :> RInv(RMul(ma[2], RInt(ma[1])))

CSign(a) == LET ma == Mono(a) IN IF ma[2][1] < 0 THEN -1 ELSE 1

\* sqrt(p/q) for a rational p/q > 0:  (s1 / (s2*d2)) * sqrt(d1*d2)
\* where p = s1^2 * d1 and q = s2^2 * d2.
CSqrt(a) ==
    LET ma == Mono(a)
        p  == ma[2][1]
        q  == ma[2][2]
    IN  IF ma[1] # 1 \/ p <= 0 THEN CHOOSE m \in {} : TRUE
        ELSE (SquareFree(p) * SquareFree(q)) :>
                 RNorm(SquarePart(p), SquarePart(q) * SquareFree(q))

(***************************************************************************)
(* Floating-point numbers: NaN, +inf, -inf, and the finite numbers         *)
(* c * Eps^k.  Orders is the exponent range: Eps^2 is below the smallest   *)
(* positive number (1e-400 in binary64) and Eps^-2 above the largest.      *)
(***************************************************************************)
Orders == -1 .. 1

NaN == [t |-> "nan", s |-> 0, k |-> 0, c |-> CZero]
Inf(sgn) == [t |-> "inf", s |-> sgn, k |-> 0, c |-> CZero]
Zero == [t |-> "fin", s |-> 0, k |-> 0, c |-> CZero]
Fin(k, c) == IF DOMAIN c = {} THEN Zero ELSE [t |-> "fin", s |-> 0, k |-> k, c |-> c]

isnan(a) == a.t = "nan"
IsInf(a) == a.t = "inf"
IsZero(a) == a.t = "fin" /\ DOMAIN a.c = {}

\* The ordinary number p/q, and p/q * 1e-200.
Num(p, q) == Fin(0, CRat(RNorm(p, q)))
Tiny(p, q) == Fin(1, CRat(RNorm(p, q)))

\* Sign of an infinity or of a non-zero finite number.
Sign(a) == IF IsInf(a) THEN a.s ELSE CSign(a.c)

\* The result c * Eps^k of a product or quotient, brought into range:
\* underflow gives 0, overflow gives an infinity.
Ranged(k, c) ==
    IF k \in Orders THEN Fin(k, c)
    ELSE IF k > 0 THEN Zero
    ELSE Inf(CSign(c))

FNeg(a) ==
    IF isnan(a) THEN NaN
    ELSE IF IsInf(a) THEN Inf(-a.s)
    ELSE Fin(a.k, CNeg(a.c))

\* a + b.  Of two finite terms of different order the larger absorbs the
\* smaller (1.0 + 1e-200 = 1.0).
FAdd(a, b) ==
    IF isnan(a) \/ isnan(b) THEN NaN
    ELSE IF IsInf(a) /\ IsInf(b) THEN (IF a.s = b.s THEN a ELSE NaN)
    ELSE IF IsInf(a) THEN a
    ELSE IF IsInf(b) THEN b
    ELSE IF IsZero(a) THEN b
    ELSE IF IsZero(b) THEN a
    ELSE IF a.k < b.k THEN a
    ELSE IF b.k < a.k THEN b
    ELSE Fin(a.k, CAdd(a.c, b.c))

FSub(a, b) == FAdd(a, FNeg(b))

FMul(a, b) ==
    IF isnan(a) \/ isnan(b) THEN NaN
    ELSE IF IsInf(a) \/ IsInf(b)
         THEN (IF IsZero(a) \/ IsZero(b) THEN NaN ELSE Inf(Sign(a) * Sign(b)))
    ELSE IF IsZero(a) \/ IsZero(b) THEN Zero
    ELSE Ranged(a.k + b.k, CMul(a.c, b.c))

\* a / b with the floating-point error handling switched off, as inside
\* np.errstate(divide='ignore', invalid='ignore'): x/0 is an infinity, 0/0 NaN.
FDiv(a, b) ==
    IF isnan(a) \/ isnan(b) THEN NaN
    ELSE IF IsInf(a)
         THEN (IF IsInf(b) THEN NaN
               ELSE IF IsZero(b) THEN a
               ELSE Inf(a.s * Sign(b)))
    ELSE IF IsInf(b) THEN Zero
    ELSE IF IsZero(b) THEN (IF IsZero(a) THEN NaN ELSE Inf(Sign(a)))
    ELSE IF IsZero(a) THEN Zero
    ELSE Ranged(a.k - b.k, CMul(a.c, CInv(b.c)))

\* The floating-point exceptions a / b signals.
FDivFlags(a, b) ==
    IF isnan(a) \/ isnan(b) THEN {}
    ELSE IF IsInf(a) THEN (IF IsInf(b) THEN {"invalid"} ELSE {})
    ELSE IF IsInf(b) THEN {}
    ELSE IF IsZero(b) THEN (IF IsZero(a) THEN {"invalid"} ELSE {"divide"})
    ELSE IF IsZero(a) THEN {}
    ELSE IF a.k - b.k \in Orders THEN {}
    ELSE IF a.k - b.k > 0 THEN {"under"}
    ELSE {"over"}

\* The square root.  The code takes roots of sums of squares only: of 0, of
\* +inf, of NaN, or of a positive rational of order 0.
FSqrt(a) ==
    IF isnan(a) THEN NaN
    ELSE IF IsInf(a) THEN (IF a.s > 0 THEN a ELSE NaN)
    ELSE IF IsZero(a) THEN Zero
    ELSE IF a.k # 0 THEN CHOOSE m \in {} : TRUE
    ELSE Fin(0, CSqrt(a.c))

(***************************************************************************)
(* numpy arrays of two dimensions: a sequence of rows.  A binary ufunc     *)
(* broadcasts its operands: along each axis the lengths are equal or one   *)
(* of them is 1; otherwise it raises ValueError.                           *)
(***************************************************************************)
Max(i, j) == IF i >= j THEN i ELSE j

shape(A) == << Len(A), Len(A[1]) >>

NoShape == << 0, 0 >>

Broadcast(s1, s2) ==
    IF s1 = NoShape \/ s2 = NoShape THEN NoShape
    ELSE IF /\ (s1[1] = s2[1] \/ s1[1] = 1 \/ s2[1] = 1)
            /\ (s1[2] = s2[2] \/ s1[2] = 1 \/ s2[2] = 1)
         THEN << Max(s1[1], s2[1]), Max(s1[2], s2[2]) >>
    ELSE NoShape

\* Element (i, j) of the broadcast of an array A of shape sa: an axis of
\* length 1 is repeated.
At(A, sa, i, j) == A[IF sa[1] = 1 THEN 1 ELSE i][IF sa[2] = 1 THEN 1 ELSE j]

FSquare(a) == FMul(a, a)

\* A ufunc on one pair of elements, and on one element.
Apply2(op, a, b) ==
    CASE op = "add"      -> FAdd(a, b)
      [] op = "subtract" -> FSub(a, b)
      [] op = "multiply" -> FMul(a, b)
      [] op = "divide"   -> FDiv(a, b)

Apply1(op, a) ==
    CASE op = "square"   -> FSquare(a)
      [] op = "sqrt"     -> FSqrt(a)
      [] op = "negative" -> FNeg(a)

Ufunc2(op, A, B) ==
    LET sa == shape(A)
        sb == shape(B)
        sh == Broadcast(sa, sb)
    IN  [ i \in 1 .. sh[1] |-> [ j \in 1 .. sh[2] |->
            Apply2(op, At(A, sa, i, j), At(B, sb, i, j)) ] ]

Ufunc1(op, A) ==
    LET sa == shape(A)
    IN  [ i \in 1 .. sa[1] |-> [ j \in 1 .. sa[2] |-> Apply1(op, A[i][j]) ] ]

multiply(A, B) == Ufunc2("multiply", A, B)
subtract(A, B) == Ufunc2("subtract", A, B)
add(A, B) == Ufunc2("add", A, B)
divide(A, B) == Ufunc2("divide", A, B)
square(A) == Ufunc1("square", A)
sqrt(A) == Ufunc1("sqrt", A)

\* array - scalar: the scalar is broadcast like an array of shape (1, 1).
subtract_scalar(A, x) == subtract(A, << << x >> >>)

\* The floating-point exceptions np.divide(A, B) signals, over all elements.
divide_flags(A, B) ==
    LET sa == shape(A)
        sb == shape(B)
        sh == Broadcast(sa, sb)
    IN  UNION { FDivFlags(At(A, sa, i, j), At(B, sb, i, j)) :
                   i \in 1 .. sh[1], j \in 1 .. sh[2] }

\* Faulty variant: the centre is read like a list without negative indices.
IndexNonNegative(A, n) == n >= 0 /\ n < Len(A) /\ n < Len(A[1])

\* A[n, n] with Python's indexing: 0-based, a negative index counts from the
\* end, an index outside -len .. len-1 raises IndexError.
IndexOK(A, n) == /\ -Len(A) <= n /\ n < Len(A)
                 /\ -Len(A[1]) <= n /\ n < Len(A[1])

PyIndex(n, len) == IF n >= 0 THEN n + 1 ELSE len + n + 1

Item(A, n) == A[PyIndex(n, Len(A))][PyIndex(n, Len(A[1]))]

\* The elements in C (row-major) order.
ravel(A) ==
    LET sa == shape(A)
    IN  [ m \in 1 .. (sa[1] * sa[2]) |-> A[((m - 1) \div sa[2]) + 1][((m - 1) % sa[2]) + 1] ]

(***************************************************************************)
(* np.sum of a contiguous array adds in numpy's pairwise order: fewer      *)
(* than 8 elements one after the other; up to 128 elements in 8 lanes      *)
(* (lane j adds a[j], a[j+8], ...) that are combined as a tree, then the   *)
(* elements past the last full block of 8.                                 *)
(***************************************************************************)
RECURSIVE AddFrom(_, _, _, _)
AddFrom(res, a, i, len) ==
    IF i > len THEN res ELSE AddFrom(FAdd(res, a[i]), a, i + 1, len)

RECURSIVE Lane(_, _, _)
Lane(a, j, blocks) ==
    IF blocks = 1 THEN a[j]
    ELSE FAdd(Lane(a, j, blocks - 1), a[j + 8 * (blocks - 1)])

pairwise_sum(a) ==
    LET len == Len(a)
        b   == len \div 8
        r(j) == Lane(a, j, b)
    IN  IF len < 8 THEN AddFrom(Zero, a, 1, len)
        ELSE AddFrom(FAdd(FAdd(FAdd(r(1), r(2)), FAdd(r(3), r(4))),
                          FAdd(FAdd(r(5), r(6)), FAdd(r(7), r(8)))),
                     a, 8 * b + 1, len)

(***************************************************************************)
(* np.nanmean(A): the NaN entries are replaced by 0 and not counted; the   *)
(* sum is divided by the count.  With no entry counted the quotient is     *)
(* 0/0 = NaN and nanmean issues RuntimeWarning "Mean of empty slice"       *)
(* through the warnings module, which np.errstate does not govern.         *)
(***************************************************************************)
Count(a) == Cardinality({ m \in 1 .. Len(a) : ~isnan(a[m]) })

replace_nan(a) == [ m \in 1 .. Len(a) |-> IF isnan(a[m]) THEN Zero ELSE a[m] ]

\* Faulty variant: the sum of the defined entries over the size of the
\* array, the "nansum / (2n+1)^2" the comments on lines 52-53 speak of.
nansum_over_size(A) ==
    LET a == ravel(A) IN FDiv(pairwise_sum(replace_nan(a)), Num(Len(a), 1))

nanmean(A) ==
    LET a == ravel(A) IN FDiv(pairwise_sum(replace_nan(a)), Num(Count(a), 1))

nanmean_warnings(A) ==
    IF Count(ravel(A)) = 0 THEN {"RuntimeWarning: Mean of empty slice"} ELSE {}

\* Faulty variant: the NaN of an empty mean is returned as it is.
no_fillna(x) == x

\* xr.DataArray(x).fillna(0.0)
fillna(x) == IF isnan(x) THEN Zero ELSE x

\* The warning a floating-point exception of np.divide raises.
WarningOf(f) ==
    CASE f = "divide"  -> "RuntimeWarning: divide by zero encountered in divide"
      [] f = "invalid" -> "RuntimeWarning: invalid value encountered in divide"
      [] f = "over"    -> "RuntimeWarning: overflow encountered in divide"
      [] f = "under"   -> "RuntimeWarning: underflow encountered in divide"

\* with np.errstate(divide='ignore', invalid='ignore'): of numpy's defaults
\* (divide, over, invalid: 'warn'; under: 'ignore') two more are silenced.
errstate(flags) == { WarningOf(f) : f \in flags \ {"divide", "invalid", "under"} }

(***************************************************************************)
(* The reductions.  A call ends in a return of one number, or in the       *)
(* exception the first failing statement raises; warnings collects the     *)
(* warnings the call issued.                                               *)
(***************************************************************************)
Return(x, w) == [kind |-> "return", value |-> x, warnings |-> w]
Raise(e) == [kind |-> e, value |-> NaN, warnings |-> {}]

\* Faulty variant: the offsets are taken from the first cell of the window.
PM_from_origin(coords, n) == subtract_scalar(coords, coords[1][1])

\* PMx = fWin['xCoordinates'].to_numpy() - float(fWin['xCoordinates'][n,n])
PM(coords, n) == subtract_scalar(coords, Item(coords, n))

\* Faulty variant: the mean velocity leaves out the centre P.
Dif_without_P(u) ==
    LET sa == shape(u)
        ci == (sa[1] + 1) \div 2
        cj == (sa[2] + 1) \div 2
    IN  subtract_scalar(u, nanmean([u EXCEPT ![ci][cj] = NaN]))

\* uDif = u - np.nanmean(u): the mean is taken over the whole window,
\* the centre P included.
Dif(u) == subtract_scalar(u, nanmean(u))

\* Whether the ufuncs of the one-line expression (lines 65, 137) can
\* broadcast their operands, given the shapes of PMx, PMy and of the two
\* velocity arrays.
ExpressionShape(sx, sy, su, sv) ==
    Broadcast(Broadcast(Broadcast(sx, sv), Broadcast(sy, su)),
              Broadcast(Broadcast(sx, sy), Broadcast(su, sv)))

\* Faulty variant: the second product lost its factor u.
Numerator_without_u(PMx, PMy, u, v) == subtract(multiply(PMx, v), PMy)

\* np.subtract(np.multiply(PMx,v), np.multiply(PMy,u))
Numerator(PMx, PMy, u, v) == subtract(multiply(PMx, v), multiply(PMy, u))

\* Faulty variant: the distance |PM| is left squared.
Denominator_squared_distance(PMx, PMy, u, v) ==
    multiply(add(square(PMx), square(PMy)), sqrt(add(square(u), square(v))))

\* np.multiply(np.sqrt(np.add(np.square(PMx), np.square(PMy))),
\*             np.sqrt(np.add(np.square(u), np.square(v))))
Denominator(PMx, PMy, u, v) ==
    multiply(sqrt(add(square(PMx), square(PMy))), sqrt(add(square(u), square(v))))

\* The array under np.nanmean: np.divide(numerator, denominator).
sinThetaM(PMx, PMy, u, v) ==
    divide(Numerator(PMx, PMy, u, v), Denominator(PMx, PMy, u, v))

\* Lines 64-67 and 136-139: the mean of the ratios, the empty mean filled
\* with 0.0, and the warnings that reach the caller.
MeanSine(PMx, PMy, u, v, before) ==
    LET num == Numerator(PMx, PMy, u, v)
        den == Denominator(PMx, PMy, u, v)
        sin == divide(num, den)
    IN  Return(fillna(nanmean(sin)),
               before \cup errstate(divide_flags(num, den)) \cup nanmean_warnings(sin))

Gamma1_moving_window_function(fWin, n) ==
    IF ~IndexOK(fWin.xCoordinates, n) \/ ~IndexOK(fWin.yCoordinates, n)
    THEN Raise("IndexError")
    ELSE
    LET PMx == PM(fWin.xCoordinates, n)
        PMy == PM(fWin.yCoordinates, n)
        u   == fWin.u
        v   == fWin.v
    IN  IF ExpressionShape(shape(PMx), shape(PMy), shape(u), shape(v)) = NoShape
        THEN Raise("ValueError")
        ELSE MeanSine(PMx, PMy, u, v, {})

Gamma2_moving_window_function(fWin, n) ==
    IF ~IndexOK(fWin.xCoordinates, n) \/ ~IndexOK(fWin.yCoordinates, n)
    THEN Raise("IndexError")
    ELSE
    LET PMx  == PM(fWin.xCoordinates, n)
        PMy  == PM(fWin.yCoordinates, n)
        u    == fWin.u
        v    == fWin.v
        uDif == Dif(u)
        vDif == Dif(v)
    IN  IF ExpressionShape(shape(PMx), shape(PMy), shape(uDif), shape(vDif)) = NoShape
        THEN Raise("ValueError")
        ELSE MeanSine(PMx, PMy, uDif, vDif,
                      nanmean_warnings(u) \cup nanmean_warnings(v))

(***************************************************************************)
(* The inputs: windows fWin and half-sizes n.                              *)
(***************************************************************************)
MaxN == 1
MaxVel == 1

Side(n) == 2 * n + 1

\* The values of one velocity component: NaN (a masked vector), the
\* integers up to MaxVel, and 1e-200.
VelValues == {NaN, Tiny(1, 1)} \cup { Num(i, 1) : i \in -MaxVel .. MaxVel }
Velocities == VelValues \X VelValues

\* Coordinate grids of a (2n+1) x (2n+1) window: spacing (dx, dy) and centre
\* P = (x0, y0); x runs along the columns and y along the rows.
Grid(n, x0, y0, dx, dy) ==
    [ xCoordinates |-> [ i \in 1 .. Side(n) |-> [ j \in 1 .. Side(n) |-> Num(x0 + dx * (j - n - 1), 1) ] ],
      yCoordinates |-> [ i \in 1 .. Side(n) |-> [ j \in 1 .. Side(n) |-> Num(y0 + dy * (i - n - 1), 1) ] ] ]

UnitGrid(n) == Grid(n, 0, 0, 1, 1)

\* A grid with the coordinates of one cell masked.
MaskedGrid(g, i, j) ==
    [ xCoordinates |-> [g.xCoordinates EXCEPT ![i][j] = NaN],
      yCoordinates |-> [g.yCoordinates EXCEPT ![i][j] = NaN] ]

Grids(n) == { UnitGrid(n), Grid(n, 3, -2, 2, 1), MaskedGrid(UnitGrid(n), 1, 2) }

\* Velocity fields on the unit offsets (X, Y) = (j-n-1, i-n-1) of a window:
\* solid-body rotation about the centre (counter-clockwise u = -y, v = x, and
\* clockwise), the same rotation at the scale of 1e-200, and uniform flow.
Rotation(n, dir) ==
    [ u |-> [ i \in 1 .. Side(n) |-> [ j \in 1 .. Side(n) |-> Num(-dir * (i - n - 1), 1) ] ],
      v |-> [ i \in 1 .. Side(n) |-> [ j \in 1 .. Side(n) |-> Num(dir * (j - n - 1), 1) ] ] ]

TinyRotation(n) ==
    [ u |-> [ i \in 1 .. Side(n) |-> [ j \in 1 .. Side(n) |-> Tiny(-(i - n - 1), 1) ] ],
      v |-> [ i \in 1 .. Side(n) |-> [ j \in 1 .. Side(n) |-> Tiny(j - n - 1, 1) ] ] ]

Uniform(n, vel) ==
    [ u |-> [ i \in 1 .. Side(n) |-> [ j \in 1 .. Side(n) |-> vel[1] ] ],
      v |-> [ i \in 1 .. Side(n) |-> [ j \in 1 .. Side(n) |-> vel[2] ] ] ]

BaseFields(n) ==
    {Rotation(n, 1), Rotation(n, -1), TinyRotation(n)}
        \cup { Uniform(n, vel) : vel \in Velocities }

\* The field with the velocity of cell (i, j) replaced.
WithCell(f, i, j, vel) ==
    [ u |-> [f.u EXCEPT ![i][j] = vel[1]], v |-> [f.v EXCEPT ![i][j] = vel[2]] ]

\* Cells whose velocity is varied, the centre P and a corner, and the
\* velocities put there: a masked vector, a stalled one, an ordinary one and
\* one at the scale of 1e-200.
EditCells(n) == { <<n + 1, n + 1>>, <<1, 1>> }

EditVelocities ==
    { <<NaN, NaN>>, <<Zero, Zero>>, <<Num(1, 1), Num(-1, 1)>>, <<Tiny(1, 1), Zero>> }

Fields(n) ==
    BaseFields(n) \cup
    { WithCell(f, c[1], c[2], vel) :
          f \in BaseFields(n), c \in EditCells(n), vel \in EditVelocities }

Dataset(g, f) ==
    [ xCoordinates |-> g.xCoordinates, yCoordinates |-> g.yCoordinates,
      u |-> f.u, v |-> f.v ]

\* The windows the callers are meant to pass: (2n+1) x (2n+1), n >= 1.
Windows ==
    UNION { { << Dataset(g, f), m >> : g \in Grids(m), f \in Fields(m) } : m \in 1 .. MaxN }

\* Inputs that break the callers' contract: each of the four arrays with a
\* shape of its own, and any n from -MaxIndex to MaxIndex.
MaxIndex == 3

Shapes == { <<3, 3>>, <<1, 3>>, <<2, 3>> }

Ramp(s, a, b) == [ i \in 1 .. s[1] |-> [ j \in 1 .. s[2] |-> Num(a * (i - 2) + b * (j - 2), 1) ] ]

AnyWindow(sx, sy, su, sv) ==
    [ xCoordinates |-> Ramp(sx, 0, 1), yCoordinates |-> Ramp(sy, 1, 0),
      u |-> Ramp(su, -1, 0), v |-> Ramp(sv, 0, 1) ]

AnyInputs ==
    { << AnyWindow(sx, sy, su, sv), m >> :
          sx \in Shapes, sy \in Shapes, su \in Shapes, sv \in Shapes,
          m \in -MaxIndex .. MaxIndex }

(***************************************************************************)
(* The state.  fWin, n: the arguments of a call; called, result: the       *)
(* reduction that was called and its outcome.  field, worker, out: the     *)
(* velocity field shared by the reductions the windowing driver runs, the  *)
(* workers that run them, and the output of the driver.                    *)
(***************************************************************************)
VARIABLES fWin, n, called, result, field, worker, out

vars == << fWin, n, called, result, field, worker, out >>

NoResult == [kind |-> "none", value |-> NaN, warnings |-> {}]

WellFormed(w, m) ==
    /\ m >= 1
    /\ \A a \in {w.xCoordinates, w.yCoordinates, w.u, w.v} : shape(a) = << Side(m), Side(m) >>

Inputs == Windows

NoDriver == field = << >> /\ worker = << >> /\ out = << >>

Init ==
    /\ \E in \in Inputs : fWin = in[1] /\ n = in[2]
    /\ called = "none"
    /\ result = NoResult
    /\ NoDriver

InitAny ==
    /\ \E in \in AnyInputs : fWin = in[1] /\ n = in[2]
    /\ called = "none"
    /\ result = NoResult
    /\ NoDriver

CallGamma1 ==
    /\ called = "none"
    /\ called' = "Gamma1"
    /\ result' = Gamma1_moving_window_function(fWin, n)
    /\ UNCHANGED << fWin, n, field, worker, out >>

CallGamma2 ==
    /\ called = "none"
    /\ called' = "Gamma2"
    /\ result' = Gamma2_moving_window_function(fWin, n)
    /\ UNCHANGED << fWin, n, field, worker, out >>

Next == CallGamma1 \/ CallGamma2

Spec == Init /\ [][Next]_vars

SpecAny == InitAny /\ [][Next]_vars

(***************************************************************************)
(* The windowing driver: for each centre point whose window fits in the    *)
(* field it takes a view of the window, reduces it with Gamma1 and with    *)
(* Gamma2, and writes the value into the output at the point.  NWorkers    *)
(* workers run the reductions, each statement of a reduction one step.     *)
(***************************************************************************)
NWorkers == 2

FieldRows == Side(MaxN)
FieldCols == Side(MaxN) + 1

\* u = -scale * (y - yc), v = scale * (x - xc) on the grid x = j, y = i.
RotatingField(scale) ==
    [ xCoordinates |-> [ i \in 1 .. FieldRows |-> [ j \in 1 .. FieldCols |-> Num(j, 1) ] ],
      yCoordinates |-> [ i \in 1 .. FieldRows |-> [ j \in 1 .. FieldCols |-> Num(i, 1) ] ],
      u |-> [ i \in 1 .. FieldRows |-> [ j \in 1 .. FieldCols |-> FMul(scale, Num(-(i - MaxN - 1), 1)) ] ],
      v |-> [ i \in 1 .. FieldRows |-> [ j \in 1 .. FieldCols |-> FMul(scale, Num(j - MaxN - 1, 1)) ] ] ]

DriverFields ==
    { RotatingField(Num(1, 1)),
      RotatingField(Tiny(1, 1)),
      [RotatingField(Num(1, 1)) EXCEPT !.u[1][2] = NaN, !.v[1][2] = NaN, !.u[2][2] = Num(2, 1)] }

\* The centre points, and the reductions to run: both at every centre.
CentreList == [ k \in 1 .. (FieldCols - 2 * MaxN) |-> << MaxN + 1, MaxN + k >> ]

TaskList ==
    [ k \in 1 .. (2 * Len(CentreList)) |->
        [ centre |-> CentreList[(k + 1) \div 2],
          fn |-> IF k % 2 = 1 THEN "Gamma1" ELSE "Gamma2" ] ]

\* Worker w runs every reduction of the list, from the w-th on and around.
Queue(w) == [ k \in 1 .. Len(TaskList) |-> TaskList[((k + w - 2) % Len(TaskList)) + 1] ]

\* The view of the window of half-size m about centre c.
View(A, c, m) ==
    [ i \in 1 .. Side(m) |-> [ j \in 1 .. Side(m) |-> A[c[1] - m - 1 + i][c[2] - m - 1 + j] ] ]

Window(f, c, m) ==
    [ xCoordinates |-> View(f.xCoordinates, c, m), yCoordinates |-> View(f.yCoordinates, c, m),
      u |-> View(f.u, c, m), v |-> View(f.v, c, m) ]

\* Faulty variant: u -= np.nanmean(u) and v -= np.nanmean(v), which write
\* through the views into the field.
field_after_inplace_Dif(f, c, m, uDif, vDif) ==
    [ f EXCEPT
        !.u = [ i \in 1 .. Len(f.u) |-> [ j \in 1 .. Len(f.u[i]) |->
                  IF i \in (c[1] - m) .. (c[1] + m) /\ j \in (c[2] - m) .. (c[2] + m)
                  THEN uDif[i - c[1] + m + 1][j - c[2] + m + 1] ELSE f.u[i][j] ] ],
        !.v = [ i \in 1 .. Len(f.v) |-> [ j \in 1 .. Len(f.v[i]) |->
                  IF i \in (c[1] - m) .. (c[1] + m) /\ j \in (c[2] - m) .. (c[2] + m)
                  THEN vDif[i - c[1] + m + 1][j - c[2] + m + 1] ELSE f.v[i][j] ] ] ]

\* The field after uDif = u - np.nanmean(u); vDif = v - np.nanmean(v): the
\* differences are new arrays, and the field is as it was.
field_after_Dif(f, c, m, uDif, vDif) == f

Idle == [k |-> 1, pc |-> "read", PMx |-> << >>, PMy |-> << >>, u |-> << >>, v |-> << >>, G |-> NaN]

InitDriver ==
    /\ field \in DriverFields
    /\ worker = [ w \in 1 .. NWorkers |-> Idle ]
    /\ out = [ t \in { TaskList[k] : k \in 1 .. Len(TaskList) } |-> NaN ]
    /\ n = MaxN
    /\ fWin = << >>
    /\ called = "none"
    /\ result = NoResult

Task(w) == Queue(w)[worker[w].k]

\* Lines 57-60 and 127-130.
ReadWindow(w) ==
    /\ worker[w].pc = "read"
    /\ LET win == Window(field, Task(w).centre, n)
       IN  worker' = [worker EXCEPT ![w] =
               [@ EXCEPT !.PMx = PM(win.xCoordinates, n), !.PMy = PM(win.yCoordinates, n),
                         !.u = win.u, !.v = win.v,
                         !.pc = IF Task(w).fn = "Gamma2" THEN "dif" ELSE "mean"]]
    /\ UNCHANGED << fWin, n, called, result, field, out >>

\* Lines 131-132.
SubtractMean(w) ==
    /\ worker[w].pc = "dif"
    /\ worker' = [worker EXCEPT ![w] =
           [@ EXCEPT !.u = Dif(worker[w].u), !.v = Dif(worker[w].v), !.pc = "mean"]]
    /\ field' = field_after_Dif(field, Task(w).centre, n, Dif(worker[w].u), Dif(worker[w].v))
    /\ UNCHANGED << fWin, n, called, result, out >>

\* Lines 64-65 and 136-137.
Mean(w) ==
    /\ worker[w].pc = "mean"
    /\ worker' = [worker EXCEPT ![w] =
           [@ EXCEPT !.G = nanmean(sinThetaM(worker[w].PMx, worker[w].PMy, worker[w].u, worker[w].v)),
                     !.pc = "return"]]
    /\ UNCHANGED << fWin, n, called, result, field, out >>

\* Lines 67 and 139; the driver writes the value at the centre point.
ReturnValue(w) ==
    /\ worker[w].pc = "return"
    /\ out' = [out EXCEPT ![Task(w)] = fillna(worker[w].G)]
    /\ worker' = [worker EXCEPT ![w] =
           [Idle EXCEPT !.k = worker[w].k + 1,
                        !.pc = IF worker[w].k = Len(Queue(w)) THEN "done" ELSE "read"]]
    /\ UNCHANGED << fWin, n, called, result, field >>

NextDriver ==
    \E w \in 1 .. NWorkers :
        ReadWindow(w) \/ SubtractMean(w) \/ Mean(w) \/ ReturnValue(w)

SpecDriver == InitDriver /\ [][NextDriver]_vars

(***************************************************************************)
(* Properties of the reductions on well-formed windows.  The state         *)
(* predicates speak of the window fWin, the half-size n and the outcome    *)
(* result of the call that was made.                                       *)
(***************************************************************************)
Cells(m) == (1 .. Side(m)) \X (1 .. Side(m))

\* The ratio of one cell M = (i, j) of window w, from the definition
\* (PMx*v - PMy*u) / (|PM| * |U|), with P the cell (m+1, m+1).
Sine(w, m, i, j) ==
    LET px == FSub(w.xCoordinates[i][j], w.xCoordinates[m + 1][m + 1])
        py == FSub(w.yCoordinates[i][j], w.yCoordinates[m + 1][m + 1])
        uu == w.u[i][j]
        vv == w.v[i][j]
    IN  FDiv(FSub(FMul(px, vv), FMul(py, uu)),
             FMul(FSqrt(FAdd(FMul(px, px), FMul(py, py))),
                  FSqrt(FAdd(FMul(uu, uu), FMul(vv, vv)))))

Defined(w, m) == { c \in Cells(m) : ~isnan(Sine(w, m, c[1], c[2])) }

\* The window of the velocity fluctuations about the window's mean, the
\* mean of each component taken over all of its cells that are not NaN.
Fluctuation(w) ==
    [w EXCEPT !.u = subtract_scalar(w.u, nanmean(w.u)),
              !.v = subtract_scalar(w.v, nanmean(w.v))]

\* The window whose ratios the call that was made averages.
Averaged == IF called = "Gamma2" THEN Fluctuation(fWin) ELSE fWin

AllZero(A) == \A i \in 1 .. Len(A) : \A j \in 1 .. Len(A[i]) : IsZero(A[i][j])
AllNaN(A) == \A i \in 1 .. Len(A) : \A j \in 1 .. Len(A[i]) : isnan(A[i][j])

\* C1: a call on a window every cell of which has an undefined ratio returns
\* 0.0 and never NaN; the windows whose velocities are all zero, or all NaN,
\* are such windows for Gamma1 and for Gamma2.
C1_Theorem ==
    /\ (called # "none" /\ Defined(Averaged, n) = {})
           => (result.kind = "return" /\ result.value = Zero)
    /\ ((AllZero(fWin.u) /\ AllZero(fWin.v)) \/ (AllNaN(fWin.u) /\ AllNaN(fWin.v)))
           => (Defined(fWin, n) = {} /\ Defined(Fluctuation(fWin), n) = {})

C1_Witness ==
    /\ called = "Gamma1"
    /\ AllZero(fWin.u) /\ AllZero(fWin.v)
    /\ result.value = Zero

\* C3: every call on a well-formed window ends in a normal return with no
\* warning surfaced to the caller.
C3_NoWarningSurfaces ==
    called # "none" => (result.kind = "return" /\ result.warnings = {})

\* The sum of the ratios of the defined cells, in the order np.sum adds.
SumDefined(w, m) ==
    pairwise_sum([ k \in 1 .. (Side(m) * Side(m)) |->
        LET s == Sine(w, m, ((k - 1) \div Side(m)) + 1, ((k - 1) % Side(m)) + 1)
        IN  IF isnan(s) THEN Zero ELSE s ])

MeanOfDefined(w, m) == FDiv(SumDefined(w, m), Num(Cardinality(Defined(w, m)), 1))

Reversed(w) == [w EXCEPT !.u = Ufunc1("negative", w.u), !.v = Ufunc1("negative", w.v)]

C5_Theorem ==
    /\ called = "Gamma1" =>
           Gamma1_moving_window_function(Reversed(fWin), n).value = FNeg(result.value)
    /\ called = "Gamma2" =>
           Gamma2_moving_window_function(Reversed(fWin), n).value = FNeg(result.value)

C5_Witness ==
    /\ called = "Gamma2"
    /\ result.value.t = "fin" /\ ~IsZero(result.value)
    /\ Gamma2_moving_window_function(Reversed(fWin), n).value # result.value

\* C6: for solid-body rotation about P on the unit grid, every off-centre
\* cell contributes 1 (-1 when clockwise), the centre is excluded, and
\* Gamma1 is 1.0 (-1.0).
IsRotation(dir) == fWin = Dataset(UnitGrid(n), Rotation(n, dir))

IsUniform(vel) == fWin.u = Uniform(n, vel).u /\ fWin.v = Uniform(n, vel).v

PointSymmetric(w, m) ==
    \A c \in Cells(m) :
        LET i2 == Side(m) + 1 - c[1]
            j2 == Side(m) + 1 - c[2]
            xP == w.xCoordinates[m + 1][m + 1]
            yP == w.yCoordinates[m + 1][m + 1]
        IN  /\ FSub(w.xCoordinates[i2][j2], xP) = FNeg(FSub(w.xCoordinates[c[1]][c[2]], xP))
            /\ FSub(w.yCoordinates[i2][j2], yP) = FNeg(FSub(w.yCoordinates[c[1]][c[2]], yP))
            /\ ~isnan(w.xCoordinates[c[1]][c[2]])

NonZeroVector(vel) == ~isnan(vel[1]) /\ ~isnan(vel[2]) /\ ~(IsZero(vel[1]) /\ IsZero(vel[2]))

RECURSIVE Bisect(_, _, _)
Bisect(m, lo, hi) ==
    IF hi - lo <= 1 THEN lo
    ELSE LET mid == (lo + hi) \div 2
         IN  IF mid * mid <= m THEN Bisect(m, mid, hi) ELSE Bisect(m, lo, mid)

RootBounds(d) ==
    IF d = 1 THEN <<1000, 1000>>
    ELSE IF d <= 2000 THEN LET r == Bisect(d * 1000000, 0, 46340) IN <<r, r + 1>>
    ELSE LET r == Bisect(d * 10000, 0, 46340) IN <<10 * r, 10 * r + 10>>

RECURSIVE ScaledBound(_, _, _)
ScaledBound(c, D, upper) ==
    IF D = {} THEN 0
    ELSE LET d  == CHOOSE d \in D : TRUE
             t  == c[d][1] * RootBounds(d)[IF (c[d][1] > 0) = upper THEN 2 ELSE 1]
         IN  (IF upper THEN -((-t) \div c[d][2]) ELSE t \div c[d][2])
                 + ScaledBound(c, D \ {d}, upper)

WithinUnit(x) ==
    LET hi == ScaledBound(x.c, DOMAIN x.c, TRUE)
        lo == ScaledBound(x.c, DOMAIN x.c, FALSE)
    IN  IF x.k > 0 \/ IsZero(x) THEN TRUE
        ELSE IF x.k < 0 THEN FALSE
        ELSE IF hi <= 1000 /\ lo >= -1000 THEN TRUE
        ELSE IF lo > 1000 \/ hi < -1000 THEN FALSE
        ELSE CHOOSE b \in {} : TRUE

\* C8: the value a call returns is a finite number in [-1, 1].
C8_RangeInvariant ==
    called # "none" =>
        /\ result.kind = "return"
        /\ result.value.t = "fin"
        /\ WithinUnit(result.value)

\* The constant added to every velocity of a window.
Shift == Num(1, 1)

Shifted(w) ==
    [w EXCEPT !.u = add(w.u, << << Shift >> >>), !.v = add(w.v, << << Shift >> >>)]

Gamma2_is_Gamma1_of_fluctuation ==
    called = "Gamma2" =>
        result.value = Gamma1_moving_window_function(Fluctuation(fWin), n).value

ShiftLeavesGamma2 ==
    Gamma2_moving_window_function(Shifted(fWin), n).value = result.value

ExactlyShifted(A) ==
    \A i \in 1 .. Len(A) : \A j \in 1 .. Len(A[i]) :
        isnan(A[i][j]) \/ IsZero(A[i][j]) \/ (A[i][j].t = "fin" /\ A[i][j].k = 0)

InRange(i, len) == -len <= i /\ i < len

Indexable(A) == InRange(n, Len(A)) /\ InRange(n, Len(A[1]))

Compatible(s, t) == \A k \in 1 .. 2 : s[k] = t[k] \/ s[k] = 1 \/ t[k] = 1

\* C2: the reductions validate nothing.  A call raises IndexError when
\* [n, n] is no index of the coordinate arrays, ValueError when two of the
\* four arrays have shapes that do not broadcast, and returns a number for
\* every other input, malformed or not.
C2_Theorem ==
    called # "none" =>
        result.kind =
            IF ~(Indexable(fWin.xCoordinates) /\ Indexable(fWin.yCoordinates))
            THEN "IndexError"
            ELSE IF \E A \in {fWin.xCoordinates, fWin.yCoordinates, fWin.u, fWin.v} :
                    \E B \in {fWin.xCoordinates, fWin.yCoordinates, fWin.u, fWin.v} :
                        ~Compatible(shape(A), shape(B))
            THEN "ValueError"
            ELSE "return"

C2_Witness ==
    /\ called = "Gamma1"
    /\ n < 1
    /\ shape(fWin.u) # shape(fWin.xCoordinates)
    /\ result.kind = "return"

\* C2 as stated: no call on a malformed input returns a value.
C2_AsStated ==
    (called # "none" /\ ~WellFormed(fWin, n)) => result.kind # "return"

(***************************************************************************)
(* Properties of the reductions the driver runs.                           *)
(***************************************************************************)
\* The value of the reduction of task t run alone on field f.
Alone(f, t) ==
    IF t.fn = "Gamma1" THEN Gamma1_moving_window_function(Window(f, t.centre, n), n).value
    ELSE Gamma2_moving_window_function(Window(f, t.centre, n), n).value

\* A step writes into the output only values of reductions run alone.
WritesAreAlone ==
    \A t \in DOMAIN out : out'[t] = out[t] \/ out'[t] = Alone(field, t)

\* C9: no step of a reduction changes the shared field, and every value
\* written for a centre point, in whatever order and interleaving the
\* reductions run and however often one is repeated, is the value the
\* reduction has when run alone.
C9_Theorem == [][field' = field /\ WritesAreAlone]_vars

C9_Witness ==
    /\ \A t \in DOMAIN out : ~isnan(out[t])
    /\ \E w \in 1 .. NWorkers : worker[w].pc = "dif"
    /\ \E w \in 1 .. NWorkers : worker[w].pc = "done"

=============================================================================
